---- MODULE Spec2Model ----
(***************************************************************************)
(* Sleek-Countdown: the two App components of src/App.tsx.                 *)
(*                                                                         *)
(*   worker variant   (lines 82-235): a Web Worker posts 'tick' messages,  *)
(*                    the main thread decrements timeLeft in onmessage and *)
(*                    a separate effect performs the finish transition.    *)
(*   interval variant (lines 326-509): an effect keyed on                  *)
(*                    [isActive, isPaused] installs a setInterval whose    *)
(*                    callback decrements totalSeconds and finishes.       *)
(*                                                                         *)
(* One behaviour of the model is one mounted App; Init chooses which.      *)
(* Every event handler, message handler, timer callback and effect is one  *)
(* atomic step (JavaScript runs each to completion); steps of the main     *)
(* thread, of the worker and of the timers interleave freely.              *)
(***************************************************************************)
EXTENDS Integers, Sequences, FiniteSets, TLC

VARIABLES
  variant,              \* "worker" or "interval": which App is mounted
  \* ---- state both components declare under the same name
  isActive,             \* useState(false), lines 89 / 330
  isFinished,           \* useState(false), lines 90 / 332
  \* ---- worker variant
  hours, minutes, seconds,   \* useState(0), useState(5), useState(0), lines 83-85
  initialTime,          \* line 87
  timeLeft,             \* line 88
  timerId,              \* worker script: let timerId = null (0 is null), line 97
  workerTimers,         \* ids of the intervals live inside the worker
  toWorker,             \* commands posted to the worker, not yet handled
  toMain,               \* 'tick' messages posted to the main thread, not yet handled
  \* ---- interval variant
  time,                 \* useState({days, hours, minutes, seconds}), line 327
  totalSeconds,         \* line 328
  initialTotalSeconds,  \* line 329
  isPaused,             \* line 331
  interval,             \* the handle held by the latest run of the tick effect (0 is undefined)
  liveIntervals,        \* ids of the intervals live on the main thread
  effectDeps,           \* <<isActive, isPaused>> the tick effect last ran for
  \* ---- history variable (not program state)
  run,                  \* ticks applied since the last successful start,
                        \* NoRun once a pause, resume or reset has intervened
  last                  \* <<handler, phase it ran in>> of the latest main-thread step

state == <<variant, isActive, isFinished, hours, minutes, seconds, initialTime,
           timeLeft, timerId, workerTimers, toWorker, toMain, time,
           totalSeconds, initialTotalSeconds, isPaused, interval,
           liveIntervals, effectDeps, run>>

vars == <<state, last>>

workerVars   == <<hours, minutes, seconds, initialTime, timeLeft, timerId,
                  workerTimers, toWorker, toMain>>
intervalVars == <<time, totalSeconds, initialTotalSeconds, isPaused, interval,
                  liveIntervals, effectDeps>>

----------------------------------------------------------------------------
(* Bounds of the exploration *)

MaxTicks    == 3   \* ticks applied per run before the model stops delivering
MaxInFlight == 1   \* 'tick' messages queued to the main thread
MaxCommands == 2   \* commands queued to the worker
MaxIds      == 3   \* interval handles in use at once

NoRun == 0 - 1

(* What the user types into a TimeUnitInput: e.target.value *)
RawInputs == { <<>>, <<"-", "1">>, <<"1">>, <<"2">>, <<"1", "0", "0">> }

----------------------------------------------------------------------------
(* TimeUnitInput.handleChange *)

Digits == {"0", "1", "2", "3", "4", "5", "6", "7", "8", "9"}

DigitValue(c) ==
  CASE c = "0" -> 0 [] c = "1" -> 1 [] c = "2" -> 2 [] c = "3" -> 3
    [] c = "4" -> 4 [] c = "5" -> 5 [] c = "6" -> 6 [] c = "7" -> 7
    [] c = "8" -> 8 [] c = "9" -> 9

RECURSIVE ParseDigits(_, _, _)
(* the value of the longest run of decimal digits heading s, any := one was read *)
ParseDigits(s, acc, any) ==
  IF s # <<>> /\ Head(s) \in Digits
    THEN ParseDigits(Tail(s), acc * 10 + DigitValue(Head(s)), TRUE)
    ELSE [nan |-> ~any, val |-> acc]

(* parseInt(string, 10): optional sign, then digits; NaN when there is no digit *)
parseInt(s) ==
  IF s # <<>> /\ Head(s) = "-"
    THEN LET p == ParseDigits(Tail(s), 0, FALSE) IN [nan |-> p.nan, val |-> 0 - p.val]
    ELSE IF s # <<>> /\ Head(s) = "+"
      THEN ParseDigits(Tail(s), 0, FALSE)
      ELSE ParseDigits(s, 0, FALSE)

(* handleChange without its upper clamp (if (num > max) num = max) *)
handleChange_noUpperClamp(raw, max) ==
  LET num  == parseInt(raw)
      num1 == IF num.nan THEN 0 ELSE num.val
  IN  IF num1 < 0 THEN 0 ELSE num1

(* the number handleChange hands to onChange *)
handleChange(raw, max) ==
  LET num  == parseInt(raw)
      num1 == IF num.nan THEN 0 ELSE num.val
      num2 == IF num1 < 0 THEN 0 ELSE num1
  IN  IF num2 > max THEN max ELSE num2

----------------------------------------------------------------------------
(* Derived values *)

(* handleStart, worker variant: const totalSeconds = ... *)
TotalW == hours * 3600 + minutes * 60 + seconds

(* handleStart, interval variant: const seconds = ... *)
TotalI == time.days * 86400 + time.hours * 3600 + time.minutes * 60 + time.seconds

canStart == time.days > 0 \/ time.hours > 0 \/ time.minutes > 0 \/ time.seconds > 0

isTimerRunningOrFinished == isActive \/ isFinished

(* The spec's vocabulary, read off the flags each component keeps *)
Remaining == IF variant = "worker" THEN timeLeft ELSE totalSeconds
Initial   == IF variant = "worker" THEN initialTime ELSE initialTotalSeconds
Total     == IF variant = "worker" THEN TotalW ELSE TotalI

Running  == IF variant = "worker" THEN isActive /\ ~isFinished
                                  ELSE isActive /\ ~isPaused /\ ~isFinished
(* the worker variant keeps no paused flag: Paused is what handlePause leaves,
   inactive with the run's initialTime still set *)
Paused   == IF variant = "worker" THEN ~isActive /\ ~isFinished /\ initialTime > 0
                                  ELSE isActive /\ isPaused /\ ~isFinished
Finished == IF variant = "worker" THEN isFinished /\ ~isActive
                                  ELSE isFinished /\ ~isActive
Idle     == IF variant = "worker" THEN ~isActive /\ ~isFinished /\ initialTime = 0
                                  ELSE ~isActive /\ ~isFinished

Phase == CASE Running  -> "Running"
           [] Paused   -> "Paused"
           [] Finished -> "Finished"
           [] Idle     -> "Idle"
           [] OTHER    -> "none"

(* a handle no live interval and no held handle uses *)
NewId(live, held) == CHOOSE i \in 1..MaxIds : i \notin live /\ i # held

(* Exact fractions for the quotients the progress computations form; the
   doubles of the source are taken as the real numbers they approximate. *)
Frac(n, d) == [num |-> n, den |-> d]

(* a / b for fractions a, b with b > 0; equal denominators cancel *)
Quot(a, b) ==
  IF a.den = b.den THEN Frac(a.num, b.num)
                   ELSE Frac(a.num * b.den, a.den * b.num)

(* a / k and a * k for an integer k > 0 *)
Over(a, k)  == Frac(a.num, a.den * k)
Times(a, k) == Frac(a.num * k, a.den)

Zero == Frac(0, 1)

(* comparisons of fractions with positive denominators *)
AtLeastZero(a)  == a.num >= 0
AtMostHundred(a) == a.num <= 100 * a.den
IsZero(a)       == a.num = 0
IsHundred(a)    == a.num = 100 * a.den
Less(a, b) ==
  IF a.den = b.den THEN a.num < b.num ELSE a.num * b.den < b.num * a.den
SameValue(a, b) ==
  IF a.den = b.den THEN a.num = b.num ELSE a.num * b.den = b.num * a.den

(* the breakdown with hours not reduced modulo a day *)
timeLeftOf_hoursNotWrapped(t) ==
  [days    |-> t \div 86400,
   hours   |-> t \div 3600,
   minutes |-> (t % 3600) \div 60,
   seconds |-> t % 60]

(* timeLeft of the interval variant, lines 387-393, for totalSeconds = t *)
timeLeftOf(t) ==
  [days    |-> t \div 86400,
   hours   |-> (t % 86400) \div 3600,
   minutes |-> (t % 3600) \div 60,
   seconds |-> t % 60]

timeLeftI == timeLeftOf(totalSeconds)

(* handleStart's total of a Duration D, lines 362-363 *)
toTotalSeconds(D) == D.days * 86400 + D.hours * 3600 + D.minutes * 60 + D.seconds

(* progress of the worker variant, lines 165-168 *)
progressW ==
  IF initialTime = 0 THEN Zero
                     ELSE Times(Frac(timeLeft, initialTime), 100)

(* progress of the interval variant, lines 395-424 *)
daysForProgress    == Frac(totalSeconds, 86400)
hoursForProgress   == Frac(totalSeconds % 86400, 3600)
minutesForProgress == Frac(totalSeconds % 3600, 60)
secondsForProgress == Frac(totalSeconds % 60, 1)

initialTotalDays == Frac(initialTotalSeconds, 86400)

(* the days percentage taken from the days still to run instead of the
   remaining share of the whole run *)
daysPercentage_wholeDays ==
  IF initialTotalDays.num > 0
    THEN Times(Quot(Frac((totalSeconds \div 86400) * 86400, 86400),
                    initialTotalDays), 100)
    ELSE Zero

daysPercentage ==
  IF initialTotalDays.num > 0
    THEN Times(Quot(daysForProgress, initialTotalDays), 100)
    ELSE Zero

hoursPercentage   == Times(Over(hoursForProgress, 24), 100)
minutesPercentage == Times(Over(minutesForProgress, 60), 100)
secondsPercentage == Times(Over(secondsForProgress, 60), 100)

progressI ==
  IF initialTotalSeconds <= 0
    THEN [days |-> Zero, hours |-> Zero, minutes |-> Zero, seconds |-> Zero]
    ELSE [days    |-> daysPercentage,
          hours   |-> hoursPercentage,
          minutes |-> minutesPercentage,
          seconds |-> secondsPercentage]

(* the days ring is rendered, lines 451-455 *)
daysRingShown == isActive /\ initialTotalSeconds >= 86400

(* the percentages on screen *)
Percentages ==
  IF variant = "worker"
    THEN {progressW}
    ELSE {progressI.days, progressI.hours, progressI.minutes, progressI.seconds}

----------------------------------------------------------------------------
Init ==
  /\ variant \in {"worker", "interval"}
  /\ isActive = FALSE
  /\ isFinished = FALSE
  /\ hours = 0 /\ minutes = 5 /\ seconds = 0
  /\ initialTime = 0
  /\ timeLeft = 0
  /\ timerId = 0
  /\ workerTimers = {}
  /\ toWorker = <<>>
  /\ toMain = 0
  /\ time = [days |-> 0, hours |-> 0, minutes |-> 1, seconds |-> 30]
  /\ totalSeconds = 0
  /\ initialTotalSeconds = 0
  /\ isPaused = FALSE
  /\ interval = 0
  /\ liveIntervals = {}
  /\ effectDeps = <<FALSE, FALSE>>
  /\ run = NoRun
  /\ last = <<"mount", "Idle">>

----------------------------------------------------------------------------
(* Worker variant, lines 82-235 *)

(* workerRef.current?.postMessage({ command }) *)
postMessage(command) == toWorker' = Append(toWorker, command)

(* the time inputs are rendered only when !isTimerRunningOrFinished (line 196) *)
setHours(raw) ==
  /\ variant = "worker"
  /\ ~isTimerRunningOrFinished
  /\ last' = <<"edit", Phase>>
  /\ hours' = handleChange(raw, 23)
  /\ UNCHANGED <<variant, isActive, isFinished, minutes, seconds, initialTime,
                 timeLeft, timerId, workerTimers, toWorker, toMain,
                 intervalVars, run>>

setMinutes(raw) ==
  /\ variant = "worker"
  /\ ~isTimerRunningOrFinished
  /\ last' = <<"edit", Phase>>
  /\ minutes' = handleChange(raw, 59)
  /\ UNCHANGED <<variant, isActive, isFinished, hours, seconds, initialTime,
                 timeLeft, timerId, workerTimers, toWorker, toMain,
                 intervalVars, run>>

setSeconds(raw) ==
  /\ variant = "worker"
  /\ ~isTimerRunningOrFinished
  /\ last' = <<"edit", Phase>>
  /\ seconds' = handleChange(raw, 59)
  /\ UNCHANGED <<variant, isActive, isFinished, hours, minutes, initialTime,
                 timeLeft, timerId, workerTimers, toWorker, toMain,
                 intervalVars, run>>

(* handleStart with its guard off by one: totalSeconds >= 0 *)
handleStartW_acceptsZero ==
  IF TotalW >= 0
    THEN /\ initialTime' = TotalW
         /\ timeLeft' = TotalW
         /\ isActive' = TRUE
         /\ isFinished' = FALSE
         /\ postMessage("start")
         /\ run' = 0
         /\ UNCHANGED <<variant, hours, minutes, seconds, timerId,
                        workerTimers, toMain, intervalVars>>
    ELSE UNCHANGED state

(* handleStart, lines 138-147 *)
handleStartW ==
  IF TotalW > 0
    THEN /\ initialTime' = TotalW
         /\ timeLeft' = TotalW
         /\ isActive' = TRUE
         /\ isFinished' = FALSE
         /\ postMessage("start")
         /\ run' = 0
         /\ UNCHANGED <<variant, hours, minutes, seconds, timerId,
                        workerTimers, toMain, intervalVars>>
    ELSE UNCHANGED state

(* the Start button: rendered when !isActive; its disabled expression
   (isTimerRunningOrFinished && !isFinished) is then false (lines 206-214) *)
StartButtonW ==
  /\ variant = "worker"
  /\ ~isActive
  /\ ~(isTimerRunningOrFinished /\ ~isFinished)
  /\ Len(toWorker) < MaxCommands
  /\ handleStartW
  /\ last' = <<"start", Phase>>

(* handlePause, lines 149-152 *)
handlePause ==
  /\ isActive' = FALSE
  /\ postMessage("stop")
  /\ run' = NoRun
  /\ UNCHANGED <<variant, isFinished, hours, minutes, seconds, initialTime,
                 timeLeft, timerId, workerTimers, toMain, intervalVars>>

(* the Pause button: rendered when isActive (lines 215-222) *)
PauseButtonW ==
  /\ variant = "worker"
  /\ isActive
  /\ Len(toWorker) < MaxCommands
  /\ handlePause
  /\ last' = <<"pause", Phase>>

(* handleReset, lines 154-163 *)
handleResetW ==
  /\ isActive' = FALSE
  /\ isFinished' = FALSE
  /\ postMessage("stop")
  /\ hours' = 0
  /\ minutes' = 5
  /\ seconds' = 0
  /\ timeLeft' = 0
  /\ initialTime' = 0
  /\ run' = NoRun
  /\ UNCHANGED <<variant, timerId, workerTimers, toMain, intervalVars>>

(* the Reset button: always rendered (lines 224-230) *)
ResetButtonW ==
  /\ variant = "worker"
  /\ Len(toWorker) < MaxCommands
  /\ handleResetW
  /\ last' = <<"reset", Phase>>

(* workerRef.current.onmessage, lines 115-117: every 'tick' that arrives is applied *)
onmessage ==
  /\ variant = "worker"
  /\ toMain > 0
  /\ initialTime - timeLeft < MaxTicks
  /\ toMain' = toMain - 1
  /\ timeLeft' = timeLeft - 1
  /\ last' = <<"tick", Phase>>
  /\ run' = IF run = NoRun THEN NoRun ELSE run + 1
  /\ UNCHANGED <<variant, isActive, isFinished, hours, minutes, seconds,
                 initialTime, timerId, workerTimers, toWorker, intervalVars>>

(* the finish effect, lines 126-136; it runs after a render in which
   isActive && timeLeft <= 0 *)
finishEffect ==
  /\ variant = "worker"
  /\ isActive /\ timeLeft <= 0
  /\ Len(toWorker) < MaxCommands
  /\ isActive' = FALSE
  /\ isFinished' = TRUE
  /\ postMessage("stop")
  /\ last' = <<"finishEffect", Phase>>
  /\ UNCHANGED <<variant, hours, minutes, seconds, initialTime, timeLeft,
                 timerId, workerTimers, toMain, intervalVars, run>>

(* the worker script's self.onmessage, lines 98-108 *)
selfOnmessage ==
  /\ variant = "worker"
  /\ toWorker # <<>>
  /\ toWorker' = Tail(toWorker)
  /\ IF Head(toWorker) = "start"
       THEN LET cleared == IF timerId # 0 THEN workerTimers \ {timerId}
                                          ELSE workerTimers
                id      == NewId(cleared, timerId)
            IN  /\ timerId' = id
                /\ workerTimers' = cleared \cup {id}
       ELSE /\ workerTimers' = workerTimers \ {timerId}
            /\ timerId' = 0
  /\ UNCHANGED <<variant, isActive, isFinished, hours, minutes, seconds,
                 initialTime, timeLeft, toMain, intervalVars, run, last>>

(* the worker's setInterval callback, lines 101-103.  The worker is idle
   between events, so a command that has arrived is handled before an
   interval next fires a second later; a tick that races with a command is
   the tick posted just before the command arrives. *)
workerTick(id) ==
  /\ variant = "worker"
  /\ id \in workerTimers
  /\ toWorker = <<>>
  /\ toMain < MaxInFlight
  /\ toMain' = toMain + 1
  /\ UNCHANGED <<variant, isActive, isFinished, hours, minutes, seconds,
                 initialTime, timeLeft, timerId, workerTimers, toWorker,
                 intervalVars, run, last>>

----------------------------------------------------------------------------
(* Interval variant, lines 326-509 *)

(* the tick effect has yet to run for the committed [isActive, isPaused].
   React runs pending passive effects before it handles the next input
   event, so the click handlers below act on a state whose effects have run;
   a timer callback can fire before that. *)
EffectPending == effectDeps # <<isActive, isPaused>>

(* handleTimeChange, lines 334-336; the inputs are rendered only when
   !isActive && !isFinished (line 443) *)
handleTimeChange(unit, raw, max) ==
  /\ variant = "interval"
  /\ ~isActive /\ ~isFinished
  /\ ~EffectPending
  /\ time' = [time EXCEPT ![unit] = handleChange(raw, max)]
  /\ last' = <<"edit", Phase>>
  /\ UNCHANGED <<variant, isActive, isFinished, workerVars, totalSeconds,
                 initialTotalSeconds, isPaused, interval, liveIntervals,
                 effectDeps, run>>

(* handleStart without its setIsFinished(false) *)
handleStartI_keepsFinished ==
  IF TotalI > 0
    THEN /\ totalSeconds' = TotalI
         /\ initialTotalSeconds' = TotalI
         /\ isActive' = TRUE
         /\ isPaused' = FALSE
         /\ run' = 0
         /\ UNCHANGED <<variant, isFinished, workerVars, time, interval,
                        liveIntervals, effectDeps>>
    ELSE UNCHANGED state

(* handleStart, lines 362-371 *)
handleStartI ==
  IF TotalI > 0
    THEN /\ totalSeconds' = TotalI
         /\ initialTotalSeconds' = TotalI
         /\ isActive' = TRUE
         /\ isPaused' = FALSE
         /\ isFinished' = FALSE
         /\ run' = 0
         /\ UNCHANGED <<variant, workerVars, time, interval, liveIntervals,
                        effectDeps>>
    ELSE UNCHANGED state

(* the Start button: rendered when !isActive, disabled when !canStart
   (lines 468-476); a click on the disabled button calls nothing *)
StartButtonI ==
  /\ variant = "interval"
  /\ ~isActive
  /\ ~EffectPending
  /\ IF canStart THEN handleStartI ELSE UNCHANGED state
  /\ last' = <<"start", Phase>>

(* handlePauseResume, lines 373-375 *)
handlePauseResume ==
  /\ isPaused' = ~isPaused
  /\ run' = NoRun
  /\ UNCHANGED <<variant, isActive, isFinished, workerVars, time, totalSeconds,
                 initialTotalSeconds, interval, liveIntervals, effectDeps>>

(* the Pause/Resume button: rendered when isActive (lines 477-484) *)
PauseResumeButtonI ==
  /\ variant = "interval"
  /\ isActive
  /\ ~EffectPending
  /\ handlePauseResume
  /\ last' = <<IF isPaused THEN "resume" ELSE "pause", Phase>>

(* handleReset without its setIsPaused(false) *)
handleResetI_keepsPaused ==
  /\ isActive' = FALSE
  /\ isFinished' = FALSE
  /\ totalSeconds' = 0
  /\ initialTotalSeconds' = 0
  /\ run' = NoRun
  /\ UNCHANGED <<variant, workerVars, time, isPaused, interval, liveIntervals,
                 effectDeps>>

(* handleReset, lines 377-385 *)
handleResetI ==
  /\ isActive' = FALSE
  /\ isPaused' = FALSE
  /\ isFinished' = FALSE
  /\ totalSeconds' = 0
  /\ initialTotalSeconds' = 0
  /\ run' = NoRun
  /\ UNCHANGED <<variant, workerVars, time, interval, liveIntervals, effectDeps>>

(* Reset is rendered when isActive, Start Over when isFinished (lines 477-500) *)
ResetButtonI ==
  /\ variant = "interval"
  /\ isActive \/ isFinished
  /\ ~EffectPending
  /\ handleResetI
  /\ last' = <<"reset", Phase>>

(* the tick effect without the cleanup of the previous run *)
tickEffect_noCleanup ==
  /\ variant = "interval"
  /\ EffectPending
  /\ IF isActive /\ ~isPaused
       THEN LET id == NewId(liveIntervals, interval)
            IN  /\ interval' = id
                /\ liveIntervals' = liveIntervals \cup {id}
       ELSE /\ interval' = 0
            /\ UNCHANGED liveIntervals
  /\ effectDeps' = <<isActive, isPaused>>
  /\ last' = <<"tickEffect", Phase>>
  /\ UNCHANGED <<variant, isActive, isFinished, workerVars, time, totalSeconds,
                 initialTotalSeconds, isPaused, run>>

(* the tick effect, lines 338-360: the cleanup of the previous run, then the body *)
tickEffect ==
  /\ variant = "interval"
  /\ EffectPending
  /\ LET cleared == IF interval # 0 THEN liveIntervals \ {interval}
                                    ELSE liveIntervals
     IN  IF isActive /\ ~isPaused
           THEN LET id == NewId(cleared, interval)
                IN  /\ interval' = id
                    /\ liveIntervals' = cleared \cup {id}
           ELSE /\ interval' = 0
                /\ liveIntervals' = cleared
  /\ effectDeps' = <<isActive, isPaused>>
  /\ last' = <<"tickEffect", Phase>>
  /\ UNCHANGED <<variant, isActive, isFinished, workerVars, time, totalSeconds,
                 initialTotalSeconds, isPaused, run>>

(* the setInterval callback, lines 342-352, of the interval with handle id *)
setTotalSeconds(id) ==
  /\ variant = "interval"
  /\ id \in liveIntervals
  /\ IF totalSeconds <= 1
       THEN /\ liveIntervals' = liveIntervals \ {id}
            /\ isActive' = FALSE
            /\ isFinished' = TRUE
            /\ totalSeconds' = 0
       ELSE /\ totalSeconds' = totalSeconds - 1
            /\ UNCHANGED <<liveIntervals, isActive, isFinished>>
  /\ run' = IF run = NoRun THEN NoRun ELSE run + 1
  /\ last' = <<"tick", Phase>>
  /\ UNCHANGED <<variant, workerVars, time, initialTotalSeconds, isPaused,
                 interval, effectDeps>>

(* the setInterval callback finishing a tick late: prevSeconds < 1 *)
intervalCallback_finishesLate(id) ==
  /\ variant = "interval"
  /\ id \in liveIntervals
  /\ initialTotalSeconds - totalSeconds < MaxTicks
  /\ IF totalSeconds < 1
       THEN /\ liveIntervals' = liveIntervals \ {id}
            /\ isActive' = FALSE
            /\ isFinished' = TRUE
            /\ totalSeconds' = 0
       ELSE /\ totalSeconds' = totalSeconds - 1
            /\ UNCHANGED <<liveIntervals, isActive, isFinished>>
  /\ run' = IF run = NoRun THEN NoRun ELSE run + 1
  /\ last' = <<"tick", Phase>>
  /\ UNCHANGED <<variant, workerVars, time, initialTotalSeconds, isPaused,
                 interval, effectDeps>>

(* the callback within the first MaxTicks seconds of a run *)
intervalCallback(id) ==
  /\ initialTotalSeconds - totalSeconds < MaxTicks
  /\ setTotalSeconds(id)

----------------------------------------------------------------------------
Next ==
  \/ \E raw \in RawInputs : setHours(raw)
  \/ \E raw \in RawInputs : setMinutes(raw)
  \/ \E raw \in RawInputs : setSeconds(raw)
  \/ StartButtonW
  \/ PauseButtonW
  \/ ResetButtonW
  \/ onmessage
  \/ finishEffect
  \/ selfOnmessage
  \/ \E id \in 1..MaxIds : workerTick(id)
  \/ \E raw \in RawInputs : handleTimeChange("days", raw, 99)
  \/ \E raw \in RawInputs : handleTimeChange("hours", raw, 23)
  \/ \E raw \in RawInputs : handleTimeChange("minutes", raw, 59)
  \/ \E raw \in RawInputs : handleTimeChange("seconds", raw, 59)
  \/ StartButtonI
  \/ PauseResumeButtonI
  \/ ResetButtonI
  \/ tickEffect
  \/ \E id \in 1..MaxIds : intervalCallback(id)

Spec == Init /\ [][Next]_vars

----------------------------------------------------------------------------
(* Whole runs of the interval variant, for the conversions and the progress
   computation: the Duration is drawn from CalcDurations, the run is started
   and counts down to zero undisturbed. *)

LongestRun == 86401

CalcDurations ==
  { [days |-> d, hours |-> h, minutes |-> m, seconds |-> s] :
      d \in {0, 1, 99}, h \in {0, 2, 23}, m \in {0, 59}, s \in {0, 1, 59} }

InitCalc ==
  /\ variant = "interval"
  /\ isActive = FALSE
  /\ isFinished = FALSE
  /\ hours = 0 /\ minutes = 5 /\ seconds = 0
  /\ initialTime = 0
  /\ timeLeft = 0
  /\ timerId = 0
  /\ workerTimers = {}
  /\ toWorker = <<>>
  /\ toMain = 0
  /\ time \in CalcDurations
  /\ totalSeconds = 0
  /\ initialTotalSeconds = 0
  /\ isPaused = FALSE
  /\ interval = 0
  /\ liveIntervals = {}
  /\ effectDeps = <<FALSE, FALSE>>
  /\ run = NoRun
  /\ last = <<"mount", "Idle">>

(* the callback in a run of at most LongestRun seconds *)
countdown(id) ==
  /\ initialTotalSeconds <= LongestRun
  /\ setTotalSeconds(id)

NextCalc ==
  \/ StartButtonI
  \/ tickEffect
  \/ \E id \in 1..MaxIds : countdown(id)

SpecCalc == InitCalc /\ [][NextCalc]_vars

----------------------------------------------------------------------------
(* Runs under fair scheduling, for liveness: the Duration is a run of at most
   MaxTicks seconds, the user starts, pauses, resumes and resets at will, and
   what the runtime schedules by itself is not postponed for ever: the worker
   handles every command posted to it, a live interval keeps firing, every
   posted 'tick' is delivered, and React runs every pending effect. *)

InitLive ==
  /\ variant \in {"worker", "interval"}
  /\ isActive = FALSE
  /\ isFinished = FALSE
  /\ hours = 0 /\ minutes = 0 /\ seconds \in 1..MaxTicks
  /\ initialTime = 0
  /\ timeLeft = 0
  /\ timerId = 0
  /\ workerTimers = {}
  /\ toWorker = <<>>
  /\ toMain = 0
  /\ time \in { [days |-> 0, hours |-> 0, minutes |-> 0, seconds |-> t] :
                   t \in 1..MaxTicks }
  /\ totalSeconds = 0
  /\ initialTotalSeconds = 0
  /\ isPaused = FALSE
  /\ interval = 0
  /\ liveIntervals = {}
  /\ effectDeps = <<FALSE, FALSE>>
  /\ run = NoRun
  /\ last = <<"mount", "Idle">>

NextLive ==
  \/ StartButtonW
  \/ PauseButtonW
  \/ ResetButtonW
  \/ onmessage
  \/ finishEffect
  \/ selfOnmessage
  \/ \E id \in 1..MaxIds : workerTick(id)
  \/ StartButtonI
  \/ PauseResumeButtonI
  \/ ResetButtonI
  \/ tickEffect
  \/ \E id \in 1..MaxIds : intervalCallback(id)

Fairness ==
  /\ WF_vars(selfOnmessage)
  /\ WF_vars(\E id \in 1..MaxIds : workerTick(id))
  /\ WF_vars(onmessage)
  /\ WF_vars(finishEffect)
  /\ WF_vars(tickEffect)
  /\ WF_vars(\E id \in 1..MaxIds : intervalCallback(id))

SpecLive == InitLive /\ [][NextLive]_vars /\ Fairness

----------------------------------------------------------------------------
(* Type invariant *)
TypeOK ==
  /\ variant \in {"worker", "interval"}
  /\ isActive \in BOOLEAN /\ isFinished \in BOOLEAN /\ isPaused \in BOOLEAN
  /\ hours \in 0..23 /\ minutes \in 0..59 /\ seconds \in 0..59
  /\ initialTime \in Nat /\ timeLeft \in Int
  /\ timerId \in 0..MaxIds /\ workerTimers \subseteq 1..MaxIds
  /\ Len(toWorker) <= MaxCommands /\ toMain \in 0..MaxInFlight
  /\ totalSeconds \in Nat /\ initialTotalSeconds \in Nat
  /\ interval \in 0..MaxIds /\ liveIntervals \subseteq 1..MaxIds

----------------------------------------------------------------------------
(* Steps and states the properties speak of *)

(* a tick reaches the tick handler *)
TickStep  == onmessage \/ \E id \in 1..MaxIds : intervalCallback(id)
StartStep == StartButtonW \/ StartButtonI
ResetStep == ResetButtonW \/ ResetButtonI
(* the control that continues after a pause: Resume in the interval variant,
   the Start button in the worker variant, which has no other *)
ResumeStep == (Paused /\ PauseResumeButtonI) \/ (Paused /\ StartButtonW)

(* the worker variant's finish effect is due: it runs with the render of the
   tick that brought timeLeft to 0 *)
FinishDue == variant = "worker" /\ isActive /\ timeLeft <= 0

TimerState == [active |-> isActive, paused |-> isPaused, finished |-> isFinished,
               remaining |-> Remaining, initial |-> Initial]

(* what start with a Duration of t seconds yields on a freshly mounted App *)
FreshStart(t) == [active |-> TRUE, paused |-> FALSE, finished |-> FALSE,
                  remaining |-> t, initial |-> t]

TickSource == <<workerTimers, toWorker, liveIntervals, effectDeps>>

----------------------------------------------------------------------------
(* C1: after start and k ticks with no pause or reset in between, the timer
   is Running with remainingSeconds = T - k for every k < T, and after
   exactly T ticks remainingSeconds = 0 and the timer is Finished (in the
   worker variant once the finish effect of that tick's render has run). *)
C1_CountsDownToFinished ==
  run # NoRun =>
    /\ run < Initial => Running /\ Remaining = Initial - run
    /\ run = Initial => Remaining = 0 /\ (Finished \/ FinishDue)

C1_Witness == run = 2 /\ Initial = 2 /\ Finished /\ Remaining = 0

(* C2: once Finished, every tick delivered to the tick handler leaves the
   state Finished and remainingSeconds = 0. *)
C2_FinishedIgnoresTicks ==
  [][(Finished /\ TickStep) => (Finished' /\ Remaining' = 0)]_vars

(* C3: while Paused, every tick delivered leaves remainingSeconds unchanged. *)
C3_PausedIgnoresTicks ==
  [][(Paused /\ TickStep) => (Remaining' = Remaining)]_vars

(* C4: resuming a paused timer returns it to Running with remainingSeconds
   and initialTotalSeconds as they were; the countdown is not reloaded from
   the configured Duration. *)
C4_ResumeKeepsRemaining ==
  [][ResumeStep => (Running' /\ Remaining' = Remaining /\ Initial' = Initial)]_vars

(* C5: reset issued in any state ends in Idle with remainingSeconds = 0,
   initialTotalSeconds = 0 and no paused or finished flag; issued in that
   state it leaves the timer state as it is; and a start issued in Idle
   yields the timer state a start with the same Duration yields on a freshly
   mounted App. *)
IdleTimerState == [active |-> FALSE, paused |-> FALSE, finished |-> FALSE,
                   remaining |-> 0, initial |-> 0]

C5_ResetReturnsToIdle ==
  [][ /\ ResetStep => /\ Idle'
                      /\ TimerState' = IdleTimerState
                      /\ (TimerState = IdleTimerState => TimerState' = TimerState)
      /\ (StartStep /\ Idle /\ Total > 0) => TimerState' = FreshStart(Total) ]_vars

(* a start taken in Idle after a reset whose 'stop' the worker has yet to handle *)
C5_Witness ==
  /\ variant = "worker"
  /\ last = <<"start", "Idle">>
  /\ toWorker = <<"stop", "start">>
  /\ TimerState = FreshStart(Total)

(* C6: while Running every accepted tick takes remainingSeconds to exactly its
   previous value minus 1 (or to 0 together with the Finished transition),
   and no step other than a successful start increases remainingSeconds. *)
C6_TicksDecrementByOne ==
  [][ /\ (Running /\ TickStep) =>
           \/ Remaining' = Remaining - 1
           \/ Remaining' = 0 /\ Finished'
      /\ Remaining' > Remaining => StartStep /\ Total > 0 ]_vars

(* C7: in every reachable state 0 <= remainingSeconds <= initialTotalSeconds. *)
C7_RemainingWithinInitial == 0 <= Remaining /\ Remaining <= Initial

(* C8: no tick is applied after reset has returned: a tick delivered while the
   timer is Idle leaves it Idle with remainingSeconds unchanged at 0. *)
C8_NoTickAfterReset ==
  [][(Idle /\ Remaining = 0 /\ TickStep) => (Idle' /\ Remaining' = 0)]_vars

(* C9: start from Idle takes effect if and only if the configured Duration has
   total seconds > 0, which holds exactly when some field is > 0 (canStart);
   with total 0 it leaves the timer state and the tick source as they are. *)
SomeFieldPositive ==
  IF variant = "worker" THEN hours > 0 \/ minutes > 0 \/ seconds > 0
                        ELSE canStart

C9_StartOnlyWithPositiveTotal ==
  [][ /\ SomeFieldPositive <=> Total > 0
      /\ (StartStep /\ Idle) =>
           IF Total > 0
             THEN Running' /\ Remaining' = Total /\ Initial' = Total
             ELSE TimerState' = TimerState /\ TickSource' = TickSource ]_vars

(* a start was issued in Idle with every field 0 and was rejected *)
C9_Witness == last = <<"start", "Idle">> /\ Total = 0 /\ Idle /\ ~SomeFieldPositive

(* C10 as stated: a start command takes effect only in Idle; issued while
   Running, Paused or Finished it changes neither the state nor
   remainingSeconds nor initialTotalSeconds. *)
C10_StartOnlyInIdle ==
  [][(StartStep /\ ~Idle) => TimerState' = TimerState]_vars

(* C10 amended: start can be issued only while the timer is not active, that
   is in Idle, in Finished and, in the worker variant, in Paused; there a
   start with total > 0 leads directly to Running with remainingSeconds =
   initialTotalSeconds = total; Finished is left only by reset or by start. *)
C10_StartOnlyWhenInactive ==
  [][ /\ StartStep =>
           /\ ~isActive
           /\ Phase \in {"Idle", "Finished"}
                          \cup (IF variant = "worker" THEN {"Paused"} ELSE {})
           /\ IF Total > 0 THEN TimerState' = FreshStart(Total)
                           ELSE TimerState' = TimerState
      /\ (Finished /\ ~Finished') => ResetStep \/ (StartStep /\ Running') ]_vars

(* a run of the worker variant that finished was started again from Finished *)
C10_Witness ==
  /\ variant = "worker"
  /\ last = <<"start", "Finished">>
  /\ Running /\ Remaining = Initial

(* C11: every run that reaches zero performs the Finished transition exactly
   once, and a run that was reset before reaching zero never performs it:
   isFinished is set only by a step that ends an active run standing at
   zero, and a run standing at zero stops being active only by that step. *)
C11_FinishExactlyOnce ==
  [][ /\ (~isFinished /\ isFinished') =>
           (isActive /\ ~isActive' /\ Remaining' <= 0)
      /\ (isActive /\ Remaining <= 0 /\ ~isActive') => isFinished' ]_vars

(* C12: after any sequence of unit edits every Duration field is in range
   (days 0..99, hours 0..23, minutes 0..59, seconds 0..59); an edit stores 0
   for non-numeric input and for input below 0, the maximum for input above
   the maximum, and in-range input unchanged. *)

(* what each raw input of RawInputs denotes, written out by hand *)
RawValue(raw) ==
  CASE raw = <<>>              -> [numeric |-> FALSE, value |-> 0]
    [] raw = <<"-", "1">>      -> [numeric |-> TRUE,  value |-> 0 - 1]
    [] raw = <<"1">>           -> [numeric |-> TRUE,  value |-> 1]
    [] raw = <<"2">>           -> [numeric |-> TRUE,  value |-> 2]
    [] raw = <<"1", "0", "0">> -> [numeric |-> TRUE,  value |-> 100]

Clamped(raw, max) ==
  LET r == RawValue(raw)
  IN  IF ~r.numeric THEN 0
      ELSE IF r.value < 0 THEN 0
      ELSE IF r.value > max THEN max
      ELSE r.value

DurationInRange ==
  /\ hours \in 0..23 /\ minutes \in 0..59 /\ seconds \in 0..59
  /\ time.days \in 0..99 /\ time.hours \in 0..23
  /\ time.minutes \in 0..59 /\ time.seconds \in 0..59

(* the values the clamp rule stores for the raw inputs, per unit maximum *)
StoredValues(max) == { Clamped(raw, max) : raw \in RawInputs }
Stored23 == StoredValues(23)
Stored59 == StoredValues(59)
Stored99 == StoredValues(99)

(* one field has been replaced by the clamp of a raw input, the others kept *)
EditedOneField ==
  IF variant = "worker"
  THEN \/ hours' \in Stored23 /\ minutes' = minutes /\ seconds' = seconds
       \/ minutes' \in Stored59 /\ hours' = hours /\ seconds' = seconds
       \/ seconds' \in Stored59 /\ hours' = hours /\ minutes' = minutes
  ELSE \/ time'.days \in Stored99 /\ time' = [time EXCEPT !.days = time'.days]
       \/ time'.hours \in Stored23 /\ time' = [time EXCEPT !.hours = time'.hours]
       \/ time'.minutes \in Stored59 /\ time' = [time EXCEPT !.minutes = time'.minutes]
       \/ time'.seconds \in Stored59 /\ time' = [time EXCEPT !.seconds = time'.seconds]

(* handleChange gives every raw input the value the clamp rule gives it *)
handleChangeClamps ==
  \A raw \in RawInputs : \A max \in {23, 59, 99} :
    handleChange(raw, max) = Clamped(raw, max)

C12_EditsClampToRange ==
  [][ /\ DurationInRange'
      /\ last'[1] = "edit" =>
            /\ EditedOneField
            /\ handleChangeClamps
    ]_vars

(* an edit with input above the maximum has stored the maximum *)
C12_Witness == last[1] = "edit" /\ time.days = 99 /\ time.hours = 23

(* C13: converting a Duration to total seconds and back loses nothing: the
   breakdown of toTotalSeconds(D) is D for every in-range Duration D, and the
   breakdown of every remaining r >= 0 recomposes to r with hours in 0..23
   and minutes, seconds in 0..59. *)
Recomposes(b, r) ==
  /\ b.days * 86400 + b.hours * 3600 + b.minutes * 60 + b.seconds = r
  /\ b.days >= 0
  /\ b.hours \in 0..23 /\ b.minutes \in 0..59 /\ b.seconds \in 0..59

C13_ConversionLossless ==
  /\ timeLeftOf(toTotalSeconds(time)) = time
  /\ totalSeconds >= 0
  /\ Recomposes(timeLeftI, totalSeconds)
  /\ (Running /\ run = 0) => timeLeftI = time

(* a run of a day and a second has ticked across the day boundary *)
C13_Witness ==
  /\ last[1] = "tick" /\ initialTotalSeconds = 86401
  /\ timeLeftI = [days |-> 0, hours |-> 23, minutes |-> 59, seconds |-> 59]

(* C14: in every reachable state every progress percentage lies in 0..100,
   and all percentages are 0 whenever the initial total is 0. *)
C14_PercentagesInRange ==
  /\ \A p \in Percentages : AtLeastZero(p) /\ AtMostHundred(p)
  /\ Initial = 0 => \A p \in Percentages : IsZero(p)

(* C15: for an initial total of 7200 s and 1800 s remaining the progress
   computation yields hours% = (1800/3600)/24*100 = 25/12 (about 2.08) and
   days% = 0. *)
TwoHoursThirtyLeft == initialTotalSeconds = 7200 /\ totalSeconds = 1800

C15_ExampleDaysZero ==
  TwoHoursThirtyLeft =>
    /\ SameValue(progressI.hours, Frac(25, 12))
    /\ IsZero(progressI.days)

(* C15 (amended): for an initial total of 7200 s and 1800 s remaining the
   progress computation yields hours% = 25/12 and days% = 25, the remaining
   share of the whole run; the days ring is not rendered for this run. *)
C15_ExampleDaysGlobal ==
  TwoHoursThirtyLeft =>
    /\ SameValue(progressI.hours, Frac(25, 12))
    /\ SameValue(progressI.days, Frac(25, 1))
    /\ ~daysRingShown

(* a two-hour run has counted down to thirty minutes *)
C15_Witness == TwoHoursThirtyLeft /\ Running /\ last[1] = "tick"

(* C16: in a run whose initial Duration has days > 0, days% is 100 right
   after start, strictly decreases with every tick, and is 0 at Finished. *)
CountdownStep == \E id \in 1..MaxIds : countdown(id)

C16_DaysPercentDecreases ==
  [][ time.days > 0 =>
        /\ (StartStep /\ Running') => IsHundred(progressI.days')
        /\ (CountdownStep /\ Running) =>
             /\ totalSeconds' < totalSeconds
             /\ Less(progressI.days', progressI.days)
        /\ Finished' => IsZero(progressI.days') ]_vars

(* a run of a day and a second has counted down to Finished *)
C16_Witness ==
  /\ Finished /\ last[1] = "tick" /\ time.days > 0
  /\ initialTotalSeconds = 86401 /\ run = 86401

(* C17: at most one tick emitter is live at any time, after any sequence of
   start, pause, resume and reset: no more than one interval is installed in
   the worker and by the tick effect, and a live interval is the one whose
   handle is held. *)
C17_SingleTickEmitter ==
  /\ Cardinality(workerTimers) <= 1
  /\ Cardinality(liveIntervals) <= 1
  /\ workerTimers \subseteq {timerId}
  /\ liveIntervals \subseteq {interval}

(* after ticks, a pause and a resume the interval has been installed again
   and is the only one *)
C17_Witness ==
  /\ last[1] = "tickEffect" /\ Running /\ run = NoRun
  /\ totalSeconds < initialTotalSeconds
  /\ interval # 0 /\ liveIntervals = {interval}

(* C18: the configured Duration changes only while the timer is Idle: no
   edit changes a field in Running, Paused or Finished, and no command
   (start, pause, resume, reset, tick) changes the Duration. *)
Duration ==
  IF variant = "worker"
    THEN [hours |-> hours, minutes |-> minutes, seconds |-> seconds]
    ELSE time

EditStep == last'[1] = "edit"

C18_DurationChangesOnlyInIdle ==
  [][ Duration' # Duration => (Idle /\ EditStep) ]_vars

(* C19: in every reachable state of the interval variant the booleans
   isActive, isPaused, isFinished encode exactly one of Idle, Running, Paused,
   Finished: isActive /\ isFinished never holds, and isPaused /\ ~isActive
   never holds. *)
C19_FlagsEncodeOnePhase ==
  variant = "interval" =>
    /\ ~(isActive /\ isFinished)
    /\ ~(isPaused /\ ~isActive)

(* C20: the tick that takes the remaining seconds to 0 and the transition to
   Finished are one step: no reachable state has the timer Running with no
   seconds remaining. *)
C20_FinishWithZeroTick == ~(Running /\ Remaining <= 0)

(* C21: if ticks keep being delivered while the tick source is active and
   from some point on no pause or reset is issued, every run that was started
   eventually reaches Finished with remainingSeconds = 0 and the tick source
   stopped: under fair scheduling every running timer leads to that state
   unless a pause or a reset comes first.  Runs are those of at most MaxTicks
   seconds. *)
Interrupted == last[1] \in {"pause", "reset"}

TickSourceStopped == workerTimers = {} /\ liveIntervals = {}

RunDone == Finished /\ Remaining = 0 /\ TickSourceStopped

ShortRun == Running /\ Initial <= MaxTicks

C21_RunsReachFinished == ShortRun ~> (RunDone \/ Interrupted)

====
